---- MODULE Spec2Model ----
(***************************************************************************)
(* Model of the design-phase dashboard script src/app.py: the tabular      *)
(* pipeline that runs from the preprocessed frame (after line 40) to the   *)
(* summary metrics (line 207).  Every stage of the script is one action;   *)
(* pc is the script's position.  Rendering (lines 209-330) is not modelled.*)
(*                                                                         *)
(* Strings are sequences of one-character strings.  Dates are integers,    *)
(* NaT is the missing date.                                                *)
(***************************************************************************)
EXTENDS Integers, Sequences, FiniteSets, TLC

\* ------------------------------------------------------------------------
\* Bounds of the model
\* ------------------------------------------------------------------------
MaxRows == 2
MaxDate == 3

\* ------------------------------------------------------------------------
\* Values
\* ------------------------------------------------------------------------
\* pd.to_datetime(..., errors="coerce") turns unparseable or missing into NaT
NaT == 0
Dates == 1..MaxDate
OptDates == {NaT} \cup Dates

\* a missing cell (None / NaN) and a present text cell
None == [null |-> TRUE, s |-> <<>>]
Str(s) == [null |-> FALSE, s |-> s]

\* 'Project #' cell: missing, a text value, or a float with Python repr s
NoNumber == [kind |-> "none", s |-> <<>>]
TextNum(s) == [kind |-> "text", s |-> s]
FloatNum(s) == [kind |-> "float", s |-> s]

notnull(v) == ~v.null
numnotnull(n) == n.kind # "none"
datenotnull(d) == d # NaT

PhaseNames == <<"Programming", "Schematic Design", "Design Development",
                "Construction Documents">>
PhaseIdx == 1..4

\* ------------------------------------------------------------------------
\* Python string operations
\* ------------------------------------------------------------------------
Digits == {"0", "1", "2", "3", "4", "5", "6", "7", "8", "9"}

\* str.isdigit(): non-empty and every character a digit
isdigit(s) == Len(s) > 0 /\ \A k \in 1..Len(s) : s[k] \in Digits

DigitVal(c) ==
    CHOOSE d \in 0..9 : c = <<"0", "1", "2", "3", "4", "5", "6", "7", "8", "9">>[d + 1]

\* positions of c in s
Occ(s, c) == {k \in 1..Len(s) : s[k] = c}
MinOf(S) == CHOOSE m \in S : \A x \in S : m <= x

\* str.replace(".", "", 1): the first decimal point removed, if any
replace_dot_once(s) ==
    IF Occ(s, ".") = {} THEN s
    ELSE LET p == MinOf(Occ(s, "."))
         IN  SubSeq(s, 1, p - 1) \o SubSeq(s, p + 1, Len(s))

\* str.strip(): leading and trailing blanks removed
RECURSIVE lstrip(_)
lstrip(s) == IF Len(s) > 0 /\ s[1] = " " THEN lstrip(Tail(s)) ELSE s
RECURSIVE rstrip(_)
rstrip(s) ==
    IF Len(s) > 0 /\ s[Len(s)] = " " THEN rstrip(SubSeq(s, 1, Len(s) - 1)) ELSE s
strip(s) == rstrip(lstrip(s))

\* str.lower() on the letters of the model's alphabet
lower(c) ==
    CASE c = "A" -> "a"
      [] c = "B" -> "b"
      [] c = "N" -> "n"
      [] c = "S" -> "s"
      [] c = "T" -> "t"
      [] OTHER -> c

\* code points, for Python's string ordering
ord(c) ==
    CASE c = " " -> 32
      [] c = "(" -> 40
      [] c = ")" -> 41
      [] c = "." -> 46
      [] c \in Digits -> 48 + DigitVal(c)
      [] c = "A" -> 65
      [] c = "B" -> 66
      [] c = "N" -> 78
      [] c = "S" -> 83
      [] c = "T" -> 84
      [] c = "a" -> 97
      [] c = "b" -> 98
      [] c = "e" -> 101
      [] c = "n" -> 110
      [] c = "o" -> 111
      [] c = "s" -> 115
      [] c = "t" -> 116
      [] c = "-" -> 8212

\* a < b in Python's lexicographic order on str
StrLess(a, b) ==
    \E k \in 1..(Len(b)) :
        /\ k <= Len(a) + 1
        /\ \A j \in 1..(k - 1) : a[j] = b[j]
        /\ \/ k = Len(a) + 1
           \/ k <= Len(a) /\ ord(a[k]) < ord(b[k])

\* one pattern character against one text character in re.search:
\* "." matches any character, every other character of the alphabet is literal
RegexCharMatch(p, c, ignorecase) ==
    \/ p = "."
    \/ IF ignorecase THEN lower(p) = lower(c) ELSE p = c

\* Series.str.contains(pat, case=..., na=False) on one present value:
\* regex=True is the default, so pat is searched as a regular expression
str_contains(text, pat, ignorecase) ==
    \E st \in 0..(Len(text) - Len(pat)) :
        \A j \in 1..Len(pat) : RegexCharMatch(pat[j], text[st + j], ignorecase)

\* str(value) of a cell as the f-strings and astype(str) render it
NoneStr == <<"N", "o", "n", "e">>
NanStr == <<"n", "a", "n">>
pystr(v) == IF v.null THEN NoneStr ELSE v.s

\* ------------------------------------------------------------------------
\* Label builder (lines 141-147)
\* ------------------------------------------------------------------------
Parens(s) == <<" ", "(">> \o s \o <<")">>
\* " \u2014 " of line 147; the character "-" stands for the em dash U+2014
Dash == <<" ", "-", " ">>

\* str(row["Project #"]) of a present number
numstr(n) == n.s

\* the test of line 141
LooksNumeric(n) == numnotnull(n) /\ isdigit(replace_dot_once(numstr(n)))

\* int(x) raises ValueError on text that is not an integer literal; on a float
\* it truncates
IntRaises(n) == n.kind = "text" /\ ~isdigit(n.s)

RECURSIVE StripZeros(_)
StripZeros(s) == IF Len(s) > 1 /\ s[1] = "0" THEN StripZeros(Tail(s)) ELSE s

\* str(int(x)) where int(x) does not raise
IntStr(n) ==
    IF n.kind = "float"
    THEN SubSeq(n.s, 1, MinOf(Occ(n.s, ".") \cup {Len(n.s) + 1}) - 1)
    ELSE StripZeros(n.s)

\* pname of lines 141-146, as the f-string of line 147 renders it
pname(row) ==
    IF LooksNumeric(row.number)
    THEN pystr(row.name) \o Parens(IntStr(row.number))
    ELSE IF numnotnull(row.number)
         THEN pystr(row.name) \o Parens(numstr(row.number))
         ELSE pystr(row.name)

\* line 142 is the only statement of the loop body that can raise
LabelRaises(row) == LooksNumeric(row.number) /\ IntRaises(row.number)

\* full_label of line 147: the manager cell is formatted whether present or not
full_label(row) == pname(row) \o Dash \o pystr(row.manager)

\* ------------------------------------------------------------------------
\* Phases of a row (lines 99-104, 149-154, 190-195)
\* ------------------------------------------------------------------------
phases(row) == [p \in PhaseIdx |->
                  [name |-> PhaseNames[p], start |-> row.dates[p], finish |-> row.dates[p + 1]]]

\* ContainsToday as it would be with the end date included
ContainsTodayClosed(ph, ref) ==
    datenotnull(ph.start) /\ datenotnull(ph.finish) /\ ph.start <= ref /\ ref <= ph.finish

\* the test of lines 106 and 196
ContainsToday(ph, ref) ==
    datenotnull(ph.start) /\ datenotnull(ph.finish) /\ ph.start <= ref /\ ref < ph.finish

\* the inner loop of lines 105-108: scan from phase p, stop at the first hit
RECURSIVE ActiveScan(_, _, _)
ActiveScan(row, ref, p) ==
    IF p > 4 THEN FALSE
    ELSE IF ContainsToday(phases(row)[p], ref) THEN TRUE
    ELSE ActiveScan(row, ref, p + 1)

\* EmitFrom as it would be if intervals that end before they start were dropped
RECURSIVE EmitFromOrdered(_, _)
EmitFromOrdered(row, p) ==
    IF p > 4 THEN <<>>
    ELSE LET ph == phases(row)[p]
         IN  (IF datenotnull(ph.start) /\ datenotnull(ph.finish) /\ ph.start <= ph.finish
              THEN <<[Project |-> full_label(row), Phase |-> ph.name,
                      Start |-> ph.start, Finish |-> ph.finish, row |-> row.idx]>>
              ELSE <<>>) \o EmitFromOrdered(row, p + 1)

\* the inner loop of lines 155-162: the records one row appends (row is the
\* index label of the source row, kept to trace a record to its row)
RECURSIVE EmitFrom(_, _)
EmitFrom(row, p) ==
    IF p > 4 THEN <<>>
    ELSE LET ph == phases(row)[p]
         IN  (IF datenotnull(ph.start) /\ datenotnull(ph.finish)
              THEN <<[Project |-> full_label(row), Phase |-> ph.name,
                      Start |-> ph.start, Finish |-> ph.finish, row |-> row.idx]>>
              ELSE <<>>) \o EmitFrom(row, p + 1)

\* CountScan as it would be without the break of line 198
RECURSIVE CountScanNoBreak(_, _, _, _)
CountScanNoBreak(counts, row, ref, p) ==
    IF p > 4 THEN counts
    ELSE CountScanNoBreak(IF ContainsToday(phases(row)[p], ref)
                          THEN [counts EXCEPT ![p] = @ + 1]
                          ELSE counts,
                          row, ref, p + 1)

\* the inner loop of lines 190-198: one active row's update of phase_counts
RECURSIVE CountScan(_, _, _, _)
CountScan(counts, row, ref, p) ==
    IF p > 4 THEN counts
    ELSE IF ContainsToday(phases(row)[p], ref)
         THEN [counts EXCEPT ![p] = @ + 1]
         ELSE CountScan(counts, row, ref, p + 1)

\* the outer loop of lines 189-198 over the rows flagged Active Today
RECURSIVE phase_counts(_, _, _)
phase_counts(rows, ref, k) ==
    IF k = 0 THEN [p \in PhaseIdx |-> 0]
    ELSE LET before == phase_counts(rows, ref, k - 1)
         IN  IF rows[k].active THEN CountScan(before, rows[k], ref, 1) ELSE before

\* Series.nunique(): distinct values, missing ones dropped
nunique_names(rows) ==
    Cardinality({rows[k].name.s : k \in {j \in 1..Len(rows) : notnull(rows[j].name)}})

\* ------------------------------------------------------------------------
\* Sort keys (lines 113-136)
\* ------------------------------------------------------------------------
RECURSIVE DigitsVal(_)
DigitsVal(s) == IF s = <<>> THEN 0 ELSE 10 * DigitsVal(SubSeq(s, 1, Len(s) - 1)) + DigitVal(s[Len(s)])

RECURSIVE Pow10(_)
Pow10(n) == IF n = 0 THEN 1 ELSE 10 * Pow10(n - 1)

\* pd.to_numeric(..., errors="coerce") of one cell: digits with at most one
\* decimal point give the number num / 10^exp, anything else gives NaN
to_numeric(n) ==
    LET s == n.s
        dots == Occ(s, ".")
        cut == MinOf(dots \cup {Len(s) + 1})
        ip == SubSeq(s, 1, cut - 1)
        fp == SubSeq(s, cut + 1, Len(s))
    IN  IF numnotnull(n) /\ Cardinality(dots) <= 1 /\ isdigit(ip \o fp)
        THEN [nan |-> FALSE, num |-> DigitsVal(ip \o fp), exp |-> Len(fp)]
        ELSE [nan |-> TRUE, num |-> 0, exp |-> 0]

\* OptLess as it would be with na_position="first"
OptLessNaFirst(a, b) ==
    \/ ~notnull(a) /\ notnull(b)
    \/ notnull(a) /\ notnull(b) /\ StrLess(a.s, b.s)

\* ascending order of one text key, na_position="last" (the default)
OptLess(a, b) ==
    \/ notnull(a) /\ ~notnull(b)
    \/ notnull(a) /\ notnull(b) /\ StrLess(a.s, b.s)

\* ascending order of the date key, NaT last
DateLess(a, b) ==
    \/ datenotnull(a) /\ ~datenotnull(b)
    \/ datenotnull(a) /\ datenotnull(b) /\ a < b

\* ascending order of the numeric key, NaN last
NumLess(a, b) ==
    \/ ~a.nan /\ b.nan
    \/ ~a.nan /\ ~b.nan /\ a.num * Pow10(b.exp) < b.num * Pow10(a.exp)

\* row x sorts strictly before row y under the chosen option
Before(x, y, option) ==
    CASE option = "Design Manager" ->
             \/ OptLess(x.manager, y.manager)
             \/ /\ ~OptLess(y.manager, x.manager)
                /\ OptLess(x.name, y.name)
      [] option = "Project Name" -> OptLess(x.name, y.name)
      [] option = "Programming Start Date" -> DateLess(x.dates[1], y.dates[1])
      [] OTHER -> NumLess(to_numeric(x.number), to_numeric(y.number))

\* DataFrame.sort_values(...).reset_index(drop=True): the orders it can return.
\* Two keys are sorted with a stable lexsort; one key is sorted with the
\* default kind="quicksort", which promises no order among equal keys.
sort_values(rows, option) ==
    LET n == Len(rows)
        Apply(p) == [k \in 1..n |-> rows[p[k]]]
    IN  {Apply(p) : p \in
           {q \in Permutations(1..n) :
              \A a, b \in 1..n :
                 a < b =>
                    /\ ~Before(rows[q[b]], rows[q[a]], option)
                    /\ (option = "Design Manager"
                          /\ ~Before(rows[q[a]], rows[q[b]], option)) => q[a] < q[b]}}

\* ------------------------------------------------------------------------
\* Text filters (lines 79-93)
\* ------------------------------------------------------------------------
\* astype(str) of the 'Project #' column: a missing cell is NaN ("nan") when the
\* column holds only floats, and None ("None") in an object column
astype_str(n, frame) ==
    IF numnotnull(n) THEN numstr(n)
    ELSE IF /\ \E k \in 1..Len(frame) : frame[k].number.kind = "float"
            /\ \A k \in 1..Len(frame) : frame[k].number.kind # "text"
         THEN NanStr
         ELSE NoneStr

NameMatch(row, search) ==
    strip(search) # <<>> => (notnull(row.name) /\ str_contains(row.name.s, strip(search), TRUE))

NumberMatch(row, search, frame) ==
    strip(search) # <<>> => str_contains(astype_str(row.number, frame), strip(search), FALSE)

ManagerMatch(row, search) ==
    strip(search) # <<>> =>
        (notnull(row.manager) /\ str_contains(row.manager.s, strip(search), TRUE))

\* ------------------------------------------------------------------------
\* State
\* ------------------------------------------------------------------------
VARIABLES
    df,                     \* the frame after fetch and date coercion (line 40)
    columns,                \* which of the two checked columns the frame has
    search_project_name,    \* sidebar inputs (lines 50-68)
    search_project_number,
    search_design_manager,
    sort_option,
    show_active,
    today,                  \* line 96
    df_filtered,            \* lines 80-136
    records,                \* line 139
    i,                      \* the row the loop of line 140 is at
    long_df,                \* lines 164, 179
    jump_to,                \* line 172: 0 is "-- None --", j the j-th project
    metrics,                \* what lines 202-207 display; empty until then
    pc                      \* position in the script

vars == <<df, columns, search_project_name, search_project_number,
          search_design_manager, sort_option, show_active, today, df_filtered,
          records, i, long_df, jump_to, metrics, pc>>

inputs == <<df, columns, search_project_name, search_project_number,
            search_design_manager, sort_option, show_active, today>>

NumberCol == "Project #"
ManagerCol == "Design Manager Name"

\* A frame of the model: rows carry their index label idx and the
\* "Active Today" column (False until line 97 sets it).  A column the sheet
\* does not have leaves its cells missing.
MkFrame(rows, cols) ==
    [k \in 1..Len(rows) |->
        [name |-> rows[k].name,
         number |-> IF NumberCol \in cols THEN rows[k].number ELSE NoNumber,
         manager |-> IF ManagerCol \in cols THEN rows[k].manager ELSE None,
         dates |-> rows[k].dates,
         idx |-> k,
         active |-> FALSE]]

SeqsUpTo(S, n) == UNION {[1..k -> S] : k \in 0..n}

\* The frames Init draws from: a first row from rich and up to MaxRows - 1
\* further rows from comp.  An empty sheet never reaches the pipeline (the
\* frame has no columns and line 40 raises KeyError), so a frame has a row.
Frames(rich, comp) == {<<r>> \o rest : r \in rich, rest \in SeqsUpTo(comp, MaxRows - 1)}

InitOf(frames, colsets, names, numbers, managers, sorts, shows, todays) ==
    /\ \E f \in frames, c \in colsets : columns = c /\ df = MkFrame(f, c)
    /\ search_project_name \in names
    /\ search_project_number \in numbers
    /\ search_design_manager \in managers
    /\ sort_option \in sorts
    /\ show_active \in shows
    /\ today \in todays
    /\ df_filtered = <<>>
    /\ records = <<>>
    /\ i = 1
    /\ long_df = <<>>
    /\ jump_to = 0
    /\ metrics = {}
    /\ pc = "verify"

\* ------------------------------------------------------------------------
\* The script, stage by stage
\* ------------------------------------------------------------------------
\* VerifyColumns as it would be with "and" for the "or" of line 43
VerifyColumnsBoth ==
    /\ pc = "verify"
    /\ pc' = IF ManagerCol \notin columns /\ NumberCol \notin columns
             THEN "stopped_error"
             ELSE "filter"
    /\ UNCHANGED <<inputs, df_filtered, records, i, long_df, jump_to, metrics>>

\* lines 42-45
VerifyColumns ==
    /\ pc = "verify"
    /\ pc' = IF ManagerCol \notin columns \/ NumberCol \notin columns
             THEN "stopped_error"
             ELSE "filter"
    /\ UNCHANGED <<inputs, df_filtered, records, i, long_df, jump_to, metrics>>

\* lines 79-93
ApplyFilters ==
    /\ pc = "filter"
    /\ LET Keep(row) == /\ NameMatch(row, search_project_name)
                        /\ NumberMatch(row, search_project_number, df)
                        /\ ManagerMatch(row, search_design_manager)
       IN  df_filtered' = SelectSeq(df, Keep)
    /\ pc' = "active"
    /\ UNCHANGED <<inputs, records, i, long_df, jump_to, metrics>>

\* lines 95-108
DetectActive ==
    /\ pc = "active"
    /\ df_filtered' = [k \in 1..Len(df_filtered) |->
                          [df_filtered[k] EXCEPT !.active = ActiveScan(df_filtered[k], today, 1)]]
    /\ pc' = "showactive"
    /\ UNCHANGED <<inputs, records, i, long_df, jump_to, metrics>>

\* lines 110-111
FilterActive ==
    /\ pc = "showactive"
    /\ LET IsActive(row) == row.active
       IN  df_filtered' = IF show_active THEN SelectSeq(df_filtered, IsActive) ELSE df_filtered
    /\ pc' = "sort"
    /\ UNCHANGED <<inputs, records, i, long_df, jump_to, metrics>>

\* lines 113-136
Sort ==
    /\ pc = "sort"
    /\ df_filtered' \in sort_values(df_filtered, sort_option)
    /\ pc' = "build"
    /\ UNCHANGED <<inputs, records, i, long_df, jump_to, metrics>>

\* lines 140-162: one iteration of the loop; int() of line 142 may raise
BuildRow ==
    /\ pc = "build"
    /\ i <= Len(df_filtered)
    /\ IF LabelRaises(df_filtered[i])
       THEN /\ pc' = "raised"
            /\ UNCHANGED <<records, i>>
       ELSE /\ records' = records \o EmitFrom(df_filtered[i], 1)
            /\ i' = i + 1
            /\ pc' = pc
    /\ UNCHANGED <<inputs, df_filtered, long_df, jump_to, metrics>>

\* CheckEmpty as it would be without the st.stop() of line 168
CheckEmptyNoStop ==
    /\ pc = "build"
    /\ i > Len(df_filtered)
    /\ long_df' = records
    /\ pc' = "jump"
    /\ UNCHANGED <<inputs, df_filtered, records, i, jump_to, metrics>>

\* lines 164-168
CheckEmpty ==
    /\ pc = "build"
    /\ i > Len(df_filtered)
    /\ long_df' = records
    /\ pc' = IF records = <<>> THEN "stopped_info" ELSE "jump"
    /\ UNCHANGED <<inputs, df_filtered, records, i, jump_to, metrics>>

\* Series.unique(): first occurrences, in order
RECURSIVE unique(_)
unique(s) ==
    IF s = <<>> THEN <<>>
    ELSE LET head == unique(SubSeq(s, 1, Len(s) - 1))
             last == s[Len(s)]
         IN  IF \E k \in 1..Len(head) : head[k] = last THEN head ELSE Append(head, last)

distinct_projects(long) == unique([k \in 1..Len(long) |-> long[k].Project])

\* the rows of long in the order of the categories cats (line 179); rows of one
\* category keep their order, as numpy's sort does on the short frames of the model
RECURSIVE by_category(_, _)
by_category(long, cats) ==
    IF cats = <<>> THEN <<>>
    ELSE LET Is(r) == r.Project = Head(cats)
         IN  SelectSeq(long, Is) \o by_category(long, Tail(cats))

\* lines 170-179
JumpToProject ==
    /\ pc = "jump"
    /\ \E j \in 0..Len(distinct_projects(long_df)) :
          /\ jump_to' = j
          /\ long_df' =
                IF j = 0 THEN long_df
                ELSE LET dp == distinct_projects(long_df)
                         NotJ(p) == p # dp[j]
                     IN  by_category(long_df, <<dp[j]>> \o SelectSeq(dp, NotJ))
    /\ pc' = "metrics"
    /\ UNCHANGED <<inputs, df_filtered, records, i, metrics>>

\* lines 181-207
Summary ==
    /\ pc = "metrics"
    /\ LET IsActive(row) == row.active
       IN  metrics' = {[totalProjects |-> nunique_names(df_filtered),
                        activeToday |-> nunique_names(SelectSeq(df_filtered, IsActive)),
                        perPhase |-> phase_counts(df_filtered, today, Len(df_filtered))]}
    /\ pc' = "done"
    /\ UNCHANGED <<inputs, df_filtered, records, i, long_df, jump_to>>

Next ==
    \/ VerifyColumns
    \/ ApplyFilters
    \/ DetectActive
    \/ FilterActive
    \/ Sort
    \/ BuildRow
    \/ CheckEmpty
    \/ JumpToProject
    \/ Summary

\* ------------------------------------------------------------------------
\* Input universes and specifications
\* ------------------------------------------------------------------------
Row(name, number, manager, dates) ==
    [name |-> name, number |-> number, manager |-> manager, dates |-> dates]

Empty == <<>>
NoDates == <<NaT, NaT, NaT, NaT, NaT>>
OnePhase == <<1, 2, NaT, NaT, NaT>>
BothCols == {NumberCol, ManagerCol}

\* Spec: every pattern of milestone dates, whatever their order
DateRows == {Row(Str(<<"a", "b">>), NoNumber, Str(<<"s">>), d) : d \in [1..5 -> OptDates]}
DateCompanions == {Row(Str(<<"b">>), NoNumber, Str(<<"s">>), OnePhase)}

Init ==
    InitOf(Frames(DateRows, DateCompanions), {BothCols}, {Empty}, {Empty}, {Empty},
           {"Programming Start Date"}, {FALSE}, Dates)

Spec == Init /\ [][Next]_vars

\* SpecActive: the same frames with "Show Only Active Today" ticked
InitActive ==
    InitOf(Frames(DateRows, DateCompanions), {BothCols}, {Empty}, {Empty}, {Empty},
           {"Programming Start Date"}, {TRUE}, Dates)

SpecActive == InitActive /\ [][Next]_vars

\* SpecLabel: the forms a name, a number and a manager cell can take, and
\* frames that lack one of the two checked columns
LabelNumbers ==
    {NoNumber,
     TextNum(<<"4", "2">>), TextNum(<<"4", "2", ".", "0">>), TextNum(<<"4", "2", "A">>),
     TextNum(<<"0", "0", "7">>), TextNum(<<".">>),
     FloatNum(<<"4", "2", ".", "0">>), FloatNum(<<"4", ".", "5">>)}
LabelRows ==
    {Row(n, x, m, d) : n \in {None, Str(<<"a", "b">>)}, x \in LabelNumbers,
                       m \in {None, Str(<<"s">>)}, d \in {NoDates, OnePhase}}
LabelCompanions ==
    {Row(Str(<<"a", "b">>), TextNum(<<"7">>), Str(<<"s">>), OnePhase),
     Row(Str(<<"a", "b">>), NoNumber, None, OnePhase),
     Row(Str(<<"a", "b">>), FloatNum(<<"4", "2", ".", "0">>), Str(<<"s">>), OnePhase)}

InitLabel ==
    InitOf(Frames(LabelRows, LabelCompanions), SUBSET BothCols, {Empty}, {Empty}, {Empty},
           {"Project Number"}, {FALSE}, Dates)

SpecLabel == InitLabel /\ [][Next]_vars

\* SpecFilter: the three search boxes
FilterRows ==
    {Row(n, x, m, OnePhase) :
        n \in {None, Str(<<"a", "b">>), Str(<<"B">>)},
        x \in {NoNumber, TextNum(<<"4", "2">>), FloatNum(<<"4", ".", "0">>)},
        m \in {None, Str(<<"s">>), Str(<<"S", "t">>)}}
FilterCompanions ==
    {Row(Str(<<"a", "b">>), TextNum(<<"7">>), Str(<<"s">>), OnePhase),
     Row(Str(<<"b">>), FloatNum(<<"4", "2", ".", "0">>), None, OnePhase)}
NameSearches == {Empty, <<" ">>, <<" ", "A", " ">>, <<".">>, <<"b">>}
NumberSearches == {Empty, <<"4">>, <<"N">>, <<"n">>}
ManagerSearches == {Empty, <<"S">>, <<"t", " ">>}

InitFilter ==
    InitOf(Frames(FilterRows, FilterCompanions), {BothCols},
           NameSearches, NumberSearches, ManagerSearches,
           {"Project Name"}, {FALSE}, {1})

SpecFilter == InitFilter /\ [][Next]_vars

\* SpecSort: the four sort options
SortRows ==
    {Row(n, x, m, d) :
        n \in {None, Str(<<"a">>), Str(<<"B">>)},
        x \in {NoNumber, TextNum(<<"4", "2">>)},
        m \in {None, Str(<<"s">>), Str(<<"T">>)},
        d \in {NoDates, OnePhase}}
SortCompanions ==
    {Row(Str(<<"a">>), TextNum(<<"7">>), None, OnePhase),
     Row(Str(<<"B">>), TextNum(<<"7", ".", "5">>), Str(<<"s">>), <<2, NaT, NaT, NaT, NaT>>),
     Row(None, TextNum(<<"A">>), Str(<<"s">>), OnePhase)}
SortOptions == {"Design Manager", "Project Name", "Programming Start Date", "Project Number"}

InitSort ==
    InitOf(Frames(SortRows, SortCompanions), {BothCols}, {Empty}, {Empty}, {Empty},
           SortOptions, {FALSE}, {1})

SpecSort == InitSort /\ [][Next]_vars

\* ------------------------------------------------------------------------
\* Properties
\* ------------------------------------------------------------------------
\* positions of the script at or after each stage
AfterFilter == {"active", "showactive", "sort", "build", "raised", "stopped_info",
                "jump", "metrics", "done"}
AfterShowActive == {"sort", "build", "raised", "stopped_info", "jump", "metrics", "done"}
AfterSort == {"build", "raised", "stopped_info", "jump", "metrics", "done"}
AfterBuild == {"stopped_info", "jump", "metrics", "done"}

\* the phases of a row whose two milestone dates are both present
PairsPresent(row) == {p \in PhaseIdx : row.dates[p] # NaT /\ row.dates[p + 1] # NaT}

\* the phases of a row whose half-open interval holds the reference date
PhasesHolding(row, ref) ==
    {p \in PairsPresent(row) : row.dates[p] <= ref /\ ref < row.dates[p + 1]}

\* the records emitted for the row with index label id
RecordsOfRow(id) == LET Mine(r) == r.row = id IN SelectSeq(records, Mine)

PhaseNumber(name) == CHOOSE p \in PhaseIdx : PhaseNames[p] = name

InFiltered(id) == \E j \in 1..Len(df_filtered) : df_filtered[j].idx = id

\* C1: for every row the build loop has processed and every phase p, the
\* interval named PhaseNames[p] from dates[p] to dates[p+1] is among the row's
\* records iff both dates are present, whatever their order; the row's records
\* are in phase order and as many as its adjacent pairs that are both present;
\* a row the loop has not processed has no record.
C1_IntervalDerivation ==
    pc \in AfterSort =>
        \A k \in 1..Len(df_filtered) :
            LET row == df_filtered[k]
                mine == RecordsOfRow(row.idx)
            IN  IF k < i
                THEN /\ \A p \in PhaseIdx :
                          (\E j \in 1..Len(mine) :
                              /\ mine[j].Phase = PhaseNames[p]
                              /\ mine[j].Start = row.dates[p]
                              /\ mine[j].Finish = row.dates[p + 1])
                          <=> p \in PairsPresent(row)
                     /\ Len(mine) = Cardinality(PairsPresent(row))
                     /\ \A a, b \in 1..Len(mine) :
                          a < b => PhaseNumber(mine[a].Phase) < PhaseNumber(mine[b].Phase)
                ELSE mine = <<>>

\* C1 witness: a processed row with dates at positions 1, 2, 4, 5 and none at 3,
\* its first interval ending before it starts, and exactly two records
C1_Witness ==
    /\ pc = "done"
    /\ \E k \in 1..Len(df_filtered) :
          LET row == df_filtered[k]
          IN  /\ PairsPresent(row) = {1, 4}
              /\ row.dates[1] > row.dates[2]
              /\ Len(RecordsOfRow(row.idx)) = 2

\* C2: with "Show Only Active Today" set, a row that passed the text filters is
\* kept iff one of its intervals has start <= today < end; a row with no
\* interval is dropped.
C2_ActiveOnDateFilter ==
    (show_active /\ pc \in AfterShowActive) =>
        \A k \in 1..Len(df) :
            (/\ NameMatch(df[k], search_project_name)
             /\ NumberMatch(df[k], search_project_number, df)
             /\ ManagerMatch(df[k], search_design_manager))
            => (InFiltered(k) <=> PhasesHolding(df[k], today) # {})

\* C2 witness: one row kept whose interval starts today, one row dropped whose
\* interval ends today
C2_Witness ==
    /\ show_active
    /\ pc = "sort"
    /\ \E k \in 1..Len(df) :
          InFiltered(k) /\ \E p \in PairsPresent(df[k]) :
              df[k].dates[p] = today /\ today < df[k].dates[p + 1]
    /\ \E k \in 1..Len(df) :
          ~InFiltered(k) /\ \E p \in PairsPresent(df[k]) :
              df[k].dates[p] < today /\ df[k].dates[p + 1] = today

\* C3: each filtered row adds to at most one per-phase bucket, the one of the
\* first of its phases, in phase order, that holds the reference date.
C3_MetricsExclusivity ==
    pc = "done" =>
        \A m \in metrics :
            \A p \in PhaseIdx :
                m.perPhase[p] =
                    Cardinality({k \in 1..Len(df_filtered) :
                                    /\ PhasesHolding(df_filtered[k], today) # {}
                                    /\ MinOf(PhasesHolding(df_filtered[k], today)) = p})

\* C3 witness: a single row with two phases holding the reference date, counted
\* once, in the first of them
C3_Witness ==
    /\ pc = "done"
    /\ Len(df_filtered) = 1
    /\ Cardinality(PhasesHolding(df_filtered[1], today)) >= 2
    /\ \E m \in metrics :
          /\ m.perPhase[MinOf(PhasesHolding(df_filtered[1], today))] = 1
          /\ m.perPhase[1] + m.perPhase[2] + m.perPhase[3] + m.perPhase[4] = 1

\* the row of df with index label id
SourceRow(id) == df[id]

\* a number whose string form, less at most one decimal point, is all digits
DigitsButOneDot(n) ==
    /\ numnotnull(n)
    /\ Cardinality(Occ(n.s, ".")) <= 1
    /\ \A k \in 1..Len(n.s) : n.s[k] \in Digits \cup {"."}
    /\ \E k \in 1..Len(n.s) : n.s[k] \in Digits

\* the digits before the decimal point, as an integer prints
IntegerPart(n) ==
    LET whole == SubSeq(n.s, 1, MinOf(Occ(n.s, ".") \cup {Len(n.s) + 1}) - 1)
    IN  IF whole = <<>> THEN <<"0">> ELSE StripZeros(whole)

\* the parenthetical the label is to carry for a number
NumberSuffix(n) ==
    IF DigitsButOneDot(n) THEN Parens(IntegerPart(n))
    ELSE IF numnotnull(n) THEN Parens(n.s)
    ELSE <<>>

IsPrefix(a, b) == Len(a) <= Len(b) /\ SubSeq(b, 1, Len(a)) = a

\* C4: a number that is all digits once at most one decimal point is removed
\* never makes the label builder raise and is rendered as an integer; any other
\* present number is rendered literally; an absent number adds no parenthetical.
C4_LabelNumericNormalization ==
    /\ pc = "raised" => ~DigitsButOneDot(df_filtered[i].number)
    /\ \A j \in 1..Len(records) :
          LET row == SourceRow(records[j].row)
          IN  IsPrefix(pystr(row.name) \o NumberSuffix(row.number) \o Dash,
                       records[j].Project)

\* C5: the label is the name with the optional number, followed by the dash and
\* the manager only when the manager is present.
C5_LabelShape ==
    \A j \in 1..Len(records) :
        LET row == SourceRow(records[j].row)
        IN  records[j].Project =
                pname(row) \o (IF notnull(row.manager) THEN Dash \o row.manager.s ELSE <<>>)

\* C6 as stated: after the "Design Manager" sort, rows are ascending by
\* (manager, name) and every row without a manager precedes every row with one.
C6_NullsFirst ==
    (sort_option = "Design Manager" /\ pc \in AfterSort) =>
        \A a, b \in 1..Len(df_filtered) :
            a < b =>
                LET x == df_filtered[a]
                    y == df_filtered[b]
                IN  /\ ~(notnull(x.manager) /\ ~notnull(y.manager))
                    /\ (notnull(x.manager) /\ notnull(y.manager))
                           => ~StrLess(y.manager.s, x.manager.s)
                    /\ (x.manager = y.manager /\ notnull(x.name) /\ notnull(y.name))
                           => ~StrLess(y.name.s, x.name.s)

\* C6 amended: after the "Design Manager" sort, rows are ascending by
\* (manager, name) and every row without a manager follows every row with one;
\* within one manager a row without a name follows the rows with one.
C6_NullsLast ==
    (sort_option = "Design Manager" /\ pc \in AfterSort) =>
        \A a, b \in 1..Len(df_filtered) :
            a < b =>
                LET x == df_filtered[a]
                    y == df_filtered[b]
                IN  /\ ~(~notnull(x.manager) /\ notnull(y.manager))
                    /\ (notnull(x.manager) /\ notnull(y.manager))
                           => ~StrLess(y.manager.s, x.manager.s)
                    /\ x.manager = y.manager =>
                           /\ ~(~notnull(x.name) /\ notnull(y.name))
                           /\ (notnull(x.name) /\ notnull(y.name))
                                  => ~StrLess(y.name.s, x.name.s)

\* C6 witness: the sort has moved a row without a manager behind a row with one
C6_Witness ==
    /\ sort_option = "Design Manager"
    /\ pc = "build"
    /\ \E a, b \in 1..Len(df_filtered) :
          /\ a < b
          /\ notnull(df_filtered[a].manager)
          /\ ~notnull(df_filtered[b].manager)
          /\ df_filtered[b].idx < df_filtered[a].idx

ColumnMissing == columns # BothCols

\* C7 as stated: the pipeline never halts because the number or the manager
\* field is missing.
C7_NeverFatal == ColumnMissing => pc # "stopped_error"

\* C7 amended: a frame without the number or the manager column halts the
\* pipeline with an error before any filtering, with no interval and no metric;
\* the pipeline halts that way for no other reason; and a missing cell of an
\* existing column never makes the label builder raise.
C7_MissingColumnStops ==
    /\ ColumnMissing => (pc \in {"verify", "stopped_error"} /\ records = <<>> /\ metrics = {})
    /\ pc = "stopped_error" => ColumnMissing
    /\ pc = "raised" => numnotnull(df_filtered[i].number)

\* C7 witness: the pipeline halted on a frame that lacks only 'Project #'
C7_Witness == pc = "stopped_error" /\ columns = {ManagerCol}

\* C8: Total Projects is the number of distinct labels of the filtered rows and
\* Active Today the number of distinct labels of the rows with an interval that
\* holds the reference date.  Stated for frames in which every row has a name.
C8_DistinctLabels ==
    (pc = "done" /\ \A k \in 1..Len(df) : notnull(df[k].name)) =>
        \A m \in metrics :
            /\ m.totalProjects =
                  Cardinality({full_label(df_filtered[k]) : k \in 1..Len(df_filtered)})
            /\ m.activeToday =
                  Cardinality({full_label(df_filtered[k]) :
                                  k \in {j \in 1..Len(df_filtered) :
                                            PhasesHolding(df_filtered[j], today) # {}}})

\* pat occurs in text as a plain substring
IsSubstring(pat, text, ignorecase) ==
    \E st \in 0..(Len(text) - Len(pat)) :
        \A j \in 1..Len(pat) :
            IF ignorecase THEN lower(pat[j]) = lower(text[st + j]) ELSE pat[j] = text[st + j]

NotBlank(s) == \E k \in 1..Len(s) : s[k] # " "

\* C9: a row is in the filtered set iff it matches every non-blank filter: the
\* name and the manager filter as case-insensitive substrings of a present
\* value, the number filter as a substring of the number's string form.
C9_FilterAndComposition ==
    pc \in AfterFilter =>
        \A k \in 1..Len(df) :
            InFiltered(k) <=>
                /\ NotBlank(search_project_name) =>
                      /\ notnull(df[k].name)
                      /\ IsSubstring(strip(search_project_name), df[k].name.s, TRUE)
                /\ NotBlank(search_project_number) =>
                      IsSubstring(strip(search_project_number),
                                  astype_str(df[k].number, df), FALSE)
                /\ NotBlank(search_design_manager) =>
                      /\ notnull(df[k].manager)
                      /\ IsSubstring(strip(search_design_manager), df[k].manager.s, TRUE)

ZeroMetrics ==
    [totalProjects |-> 0, activeToday |-> 0, perPhase |-> [p \in PhaseIdx |-> 0]]

\* C10 as stated: when no interval can be derived the pipeline ends without an
\* error, with no interval and with metrics that are all zero.
C10_ZeroMetrics ==
    (pc \in AfterBuild /\ records = <<>>) =>
        (pc = "stopped_info" /\ long_df = <<>> /\ metrics = {ZeroMetrics})

\* C10 amended: when the build loop ends with no interval the pipeline stops
\* with an informational message, with no interval and with no metric computed;
\* it goes on to the metrics only with at least one interval.
C10_StopsWithoutMetrics ==
    /\ (pc \in AfterBuild /\ records = <<>>) =>
          (pc = "stopped_info" /\ long_df = <<>> /\ metrics = {})
    /\ pc = "stopped_info" => records = <<>>

\* C10 witness: the active filter left rows out and the pipeline stopped with
\* nothing to show
C10_Witness ==
    /\ pc = "stopped_info"
    /\ df_filtered = <<>>
    /\ \E k \in 1..Len(df) : PairsPresent(df[k]) # {}

====
